---- MODULE Spec2Model ----
(***************************************************************************)
(* Model of src/main.py: the Lambda handler that reacts to a spot-instance *)
(* interruption.  One invocation builds a Spot object (assume role, read    *)
(* the instance tags, read the replacement scaling group, locate the load  *)
(* balancer resource), drains the instance from the located resource and   *)
(* raises the replacement group's desired capacity by one.                 *)
(*                                                                         *)
(* Text is a sequence of atoms (short strings); Text(s) is the Python      *)
(* string it stands for.  An absent value (Python None) is the string      *)
(* "None" for a string and <<"None">> for a text; "None" is no atom of the *)
(* alphabet the tag values are built from.                                 *)
(***************************************************************************)
EXTENDS Integers, Sequences, FiniteSets, TLC

\* ------------------------------------------------------------------ bounds
MaxTGs == 2     \* target groups known to the provider
MaxLBs == 2     \* classic balancers known to the provider
MaxCap == 2     \* largest MaxSize of the replacement group

None == "None"
NoneText == <<"None">>

\* -------------------------------------------------------------------- text
\* Atoms matched by the class [\w:] of the option pattern (main.py:188).
WordAtoms == {"MaxDesired", "x", "abc", "0", "1", "2", "3", "4"}
SpaceAtoms == {" "}
DigitVal == [d \in {"0", "1", "2", "3", "4"} |->
               CASE d = "0" -> 0 [] d = "1" -> 1 [] d = "2" -> 2
                 [] d = "3" -> 3 [] d = "4" -> 4]

IsWord(a) == a \in WordAtoms
IsSpace(a) == a \in SpaceAtoms

RECURSIVE Text(_)
Text(s) == IF s = <<>> THEN "" ELSE Head(s) \o Text(Tail(s))

\* First index >= i of s that is not in the class (Len(s)+1 when none):
\* the end of a greedy run.
RECURSIVE WordRunEnd(_, _)
WordRunEnd(s, i) ==
    IF i <= Len(s) /\ IsWord(s[i]) THEN WordRunEnd(s, i + 1) ELSE i

RECURSIVE SpaceRunEnd(_, _)
SpaceRunEnd(s, i) ==
    IF i <= Len(s) /\ IsSpace(s[i]) THEN SpaceRunEnd(s, i + 1) ELSE i

\* re: [\w:]+\s*=\s*[\w:]+ tried at position i.  The three classes are
\* disjoint, so the greedy match is the only one.  The index after the
\* match, or 0 when the pattern does not match at i.
MatchAt(s, i) ==
    LET a == WordRunEnd(s, i)
        b == SpaceRunEnd(s, a)
        c == SpaceRunEnd(s, b + 1)
        d == WordRunEnd(s, c)
    IN  IF a = i THEN 0
        ELSE IF b > Len(s) \/ s[b] # "=" THEN 0
        ELSE IF d = c THEN 0
        ELSE d

\* re.findall: the non-overlapping matches, scanning left to right.
RECURSIVE FindAllFrom(_, _)
FindAllFrom(s, i) ==
    IF i > Len(s) THEN <<>>
    ELSE LET e == MatchAt(s, i)
         IN  IF e = 0 THEN FindAllFrom(s, i + 1)
             ELSE <<SubSeq(s, i, e - 1)>> \o FindAllFrom(s, e)

FindAll(s) == FindAllFrom(s, 1)

\* Index of the first sep in s at or after i, 0 when there is none.
RECURSIVE IndexOf(_, _, _)
IndexOf(s, sep, i) ==
    IF i > Len(s) THEN 0
    ELSE IF s[i] = sep THEN i
    ELSE IndexOf(s, sep, i + 1)

\* str.split(sep): every piece, empty ones included.
RECURSIVE Split(_, _)
Split(s, sep) ==
    LET k == IndexOf(s, sep, 1)
    IN  IF k = 0 THEN <<s>>
        ELSE <<SubSeq(s, 1, k - 1)>> \o Split(SubSeq(s, k + 1, Len(s)), sep)

\* str.split(sep, 1): at most two pieces.
SplitOnce(s, sep) ==
    LET k == IndexOf(s, sep, 1)
    IN  IF k = 0 THEN <<s>>
        ELSE <<SubSeq(s, 1, k - 1), SubSeq(s, k + 1, Len(s))>>

\* sep.join(parts)
RECURSIVE Join(_, _)
Join(parts, sep) ==
    IF parts = <<>> THEN <<>>
    ELSE IF Len(parts) = 1 THEN parts[1]
    ELSE parts[1] \o <<sep>> \o Join(Tail(parts), sep)

\* str.strip() of whitespace at both ends.
RECURSIVE Strip(_)
Strip(s) ==
    IF s = <<>> THEN s
    ELSE IF IsSpace(s[1]) THEN Strip(Tail(s))
    ELSE IF IsSpace(s[Len(s)]) THEN Strip(SubSeq(s, 1, Len(s) - 1))
    ELSE s

RECURSIVE DigitsValue(_)
DigitsValue(s) ==
    IF s = <<>> THEN 0
    ELSE 10 * DigitsValue(SubSeq(s, 1, Len(s) - 1)) + DigitVal[s[Len(s)]]

IsDigits(s) == s # <<>> /\ \A i \in 1..Len(s) : s[i] \in DOMAIN DigitVal

\* int(text): surrounding whitespace is ignored, an optional sign, then
\* decimal digits; anything else raises ValueError.
PyInt(s) ==
    LET t == Strip(s)
        neg == t # <<>> /\ t[1] = "-"
        u == IF t # <<>> /\ t[1] \in {"-", "+"} THEN Tail(t) ELSE t
    IN  IF IsDigits(u)
        THEN [err |-> FALSE, val |-> IF neg THEN 0 - DigitsValue(u) ELSE DigitsValue(u)]
        ELSE [err |-> TRUE, val |-> 0]

\* dict(pairs).get(key, default) over the matches of the option pattern:
\* the value of the last pair whose key is `key`, NoneText when there is none.
RECURSIVE DictGet(_, _)
DictGet(pairs, key) ==
    IF pairs = <<>> THEN NoneText
    ELSE LET last == pairs[Len(pairs)]
         IN  IF Text(last[1]) = key THEN last[2]
             ELSE DictGet(SubSeq(pairs, 1, Len(pairs) - 1), key)

\* main.py:188-192: the options as key/value pairs.
ParseOpts(target_asg_opts) ==
    LET ms == FindAll(Join(target_asg_opts, ";"))
    IN  [i \in 1..Len(ms) |-> SplitOnce(ms[i], "=")]

\* main.py:196: maxSize = int(opts.get('MaxDesired', MaxSize))
MaxSizeOf(target_asg_opts, MaxSize) ==
    LET v == DictGet(ParseOpts(target_asg_opts), "MaxDesired")
    IN  IF v = NoneText THEN [err |-> FALSE, val |-> MaxSize] ELSE PyInt(v)

\* ------------------------------------------------------------- environment
Procs == {1, 2}                         \* concurrent invocations of handler
InstanceOf == <<"i-1", "i-2">>          \* event['detail']['instance-id']
Instances == {InstanceOf[p] : p \in Procs}
CurrentGroup == "asg-a"
ReplacementGroup == "asg-b"

TGNames == <<"tg-1", "tg-2", "tg-3">>
LBNames == <<"lb-1", "lb-2", "lb-3">>
TGs == {TGNames[k] : k \in 1..MaxTGs}
LBs == {LBNames[k] : k \in 1..MaxLBs}

\* The listings a provider can return: distinct elements, any order.
Arrangements(S, n) ==
    {s \in UNION {[1..k -> S] : k \in 0..n} :
        \A a, b \in DOMAIN s : a # b => s[a] # s[b]}

\* Texts of the asgOnDemand tag: <name>[;key=value]*, and shapes near it.
Opt(k, v) == <<";", k, "=">> \o v
Options ==
    { <<>>,
      Opt("MaxDesired", <<"0">>),
      Opt("MaxDesired", <<"1">>),
      Opt("MaxDesired", <<"2">>),
      Opt("MaxDesired", <<"4">>),
      Opt("MaxDesired", <<"abc">>),
      <<";", "MaxDesired", " ", "=", " ", "1">>,
      Opt("MaxDesired", <<"2">>) \o Opt("MaxDesired", <<"1">>),
      Opt("x", <<"1">>),
      Opt("x", <<"1">>) \o Opt("MaxDesired", <<"1">>) }
Directives == {<<ReplacementGroup>> \o o : o \in Options}

NoGroup == [AutoScalingGroupName |-> None, DesiredCapacity |-> 0, MaxSize |-> 0]
NoTags == [grp |-> None, name |-> None, od |-> NoneText]

VARIABLES
    faults,             \* the collaborator failures that can happen in this run
    metrics_namespace,  \* os.getenv('CW_METRICS_NAMESPACE', None)
    tags,               \* provider: instance -> its tags
    asgTGs,             \* provider: scaling group -> attached target groups, in listing order
    tgTargets,          \* provider: target group -> registered instances
    elbs,               \* provider: the classic balancers, in listing order
    groups,             \* provider: scaling group name -> its record
    pc,                 \* invocation -> where it is in handler
    spot,               \* invocation -> the fields of its Spot object
    calls               \* invocation -> the provider calls it issued, in order

vars == <<faults, metrics_namespace, tags, asgTGs, tgTargets, elbs, groups, pc, spot, calls>>
provider == <<tags, asgTGs, tgTargets, elbs, groups>>

Call(api, target, who, n, note) ==
    [api |-> api, target |-> target, who |-> who, n |-> n, note |-> note]

NewSpot ==
    [session |-> FALSE, tags |-> NoTags, current_asg |-> None, instance_name |-> None,
     target_asg_name |-> None, target_asg_opts |-> <<NoneText>>, target_asg |-> NoGroup,
     lb_type |-> None, resource_id |-> None, tgs |-> <<>>, i |-> 0,
     maxSize |-> [set |-> FALSE, val |-> 0], resized |-> None, exc |-> None]

\* ----------------------------------------------------------- provider API
\* a different read: the call filtered by the group-name key as well
DescribeTagsOfGroupKey(instance_id) ==
    [tags[instance_id] EXCEPT !.name = None, !.od = NoneText]

DescribeTags(instance_id) == tags[instance_id]

DescribeAutoScalingGroups(name) ==
    IF name \in DOMAIN groups THEN <<groups[name]>> ELSE <<>>

DescribeLoadBalancerTargetGroups(name) ==
    IF name \in DOMAIN asgTGs THEN asgTGs[name] ELSE <<>>

DescribeTargetHealth(tgArn) == tgTargets[tgArn]

DescribeLoadBalancers == elbs

\* ------------------------------------------------------------ Spot.metric
\* main.py:48-53: the dimension the metric is reported under.
MetricDimension(sp) ==
    IF sp.current_asg = None THEN sp.instance_name ELSE sp.current_asg

\* main.py:44-74.  Nothing is sent without a namespace.  put_metric_data
\* checks its parameters before sending: a dimension Value of None (no group
\* tag and no Name tag) is rejected with ParamValidationError, which metric
\* does not catch.
Metric(sp, name, reason) ==
    IF metrics_namespace = None
    THEN [raised |-> FALSE, exc |-> None, calls |-> <<>>]
    ELSE IF MetricDimension(sp) = None
    THEN [raised |-> TRUE, exc |-> "ParamValidationError", calls |-> <<>>]
    ELSE [raised |-> FALSE, exc |-> None,
          calls |-> <<Call("cloudwatch.put_metric_data", name, MetricDimension(sp), 1, reason)>>]

NoMetric == [raised |-> FALSE, exc |-> None, calls |-> <<>>]

\* main.py:55-74: put_metric_data is called outside any try: when the sink
\* fails or times out, the call that was sent raises out of metric.
MetricOutcomes(sp, name, reason) ==
    LET sent == Metric(sp, name, reason)
    IN  {sent} \cup
        IF "metrics" \in faults /\ sent.calls # <<>>
        THEN {[raised |-> TRUE, exc |-> "MetricsDeliveryFailure", calls |-> sent.calls]}
        ELSE {}

\* An exception nothing catches ends the invocation.
Raise(p, sp, cs, e) ==
    /\ spot' = [spot EXCEPT ![p] = [sp EXCEPT !.exc = e]]
    /\ calls' = [calls EXCEPT ![p] = cs]
    /\ pc' = [pc EXCEPT ![p] = "error"]

\* The invocation goes on at `next`, unless the metric it emitted raised.
Continue(p, sp, cs, m, next) ==
    IF m.raised
    THEN Raise(p, sp, cs \o m.calls, m.exc)
    ELSE /\ spot' = [spot EXCEPT ![p] = sp]
         /\ calls' = [calls EXCEPT ![p] = cs \o m.calls]
         /\ pc' = [pc EXCEPT ![p] = next]

\* ------------------------------------------------------- Spot.assume_role
\* a bug: the failure of assume_role is swallowed
AfterAssumeRoleSwallowed(ok) == "get_current_asg"

\* main.py:26: an exception of assume_role leaves __init__ and handler.
AfterAssumeRole(ok) == IF ok THEN "get_current_asg" ELSE "aborted_no_identity"

\* main.py:76-92, one sts call that succeeds or fails.
AssumeRole(p) ==
    /\ pc[p] = "assume_role"
    /\ \E ok \in BOOLEAN :
        /\ spot' = [spot EXCEPT ![p].session = ok]
        /\ pc' = [pc EXCEPT ![p] = AfterAssumeRole(ok)]
    /\ calls' = [calls EXCEPT ![p] =
                    Append(@, Call("sts.assume_role", "role", "", 0, ""))]
    /\ UNCHANGED <<faults, metrics_namespace, provider>>

\* --------------------------------------------------- Spot.get_current_asg
\* main.py:94-111
GetCurrentAsg(p) ==
    /\ pc[p] = "get_current_asg"
    /\ LET t == DescribeTags(InstanceOf[p])
           sp == [spot[p] EXCEPT !.tags = t, !.current_asg = t.grp,
                                 !.instance_name = t.name]
           cs == Append(calls[p], Call("ec2.describe_tags", InstanceOf[p], "", 0, ""))
           ms == IF sp.current_asg = None
                 THEN MetricOutcomes(sp, "fail", "Could not find ASG") ELSE {NoMetric}
       IN  \E m \in ms : Continue(p, sp, cs, m, "get_desired_asg")
    /\ UNCHANGED <<faults, metrics_namespace, provider>>

\* --------------------------------------------------- Spot.get_desired_asg
\* main.py:113-128
GetDesiredAsg(p) ==
    /\ pc[p] = "get_desired_asg"
    /\ LET targetAsg == spot[p].tags.od
       IN  IF targetAsg = NoneText
           THEN \E m \in MetricOutcomes(spot[p], "fail", "missing target asg") :
                    Continue(p, spot[p], calls[p], m, "find_tg")
           ELSE LET parts == Split(targetAsg, ";")
                    target_asg_name == Text(parts[1])
                    found == DescribeAutoScalingGroups(target_asg_name)
                    cs == Append(calls[p],
                                 Call("autoscaling.describe_auto_scaling_groups",
                                      target_asg_name, "",
                                      IF found = <<>> THEN 0 ELSE found[1].DesiredCapacity, ""))
                IN  IF found = <<>>
                    THEN Raise(p, spot[p], cs, "IndexError")
                    ELSE Continue(p, [spot[p] EXCEPT !.target_asg_name = target_asg_name,
                                                     !.target_asg_opts = Tail(parts),
                                                     !.target_asg = found[1]],
                                  cs, NoMetric, "find_tg")
    /\ UNCHANGED <<faults, metrics_namespace, provider>>

\* ----------------------------------------------------------- Spot.find_tg
\* main.py:40-42: find_tg returned; the termination metric ends __init__.
ReturnFromFindTg(p, cs, lb_type, resource_id) ==
    LET sp == [spot[p] EXCEPT !.lb_type = lb_type, !.resource_id = resource_id]
    IN  \E m \in MetricOutcomes(sp, "termination", "termination") :
            Continue(p, sp, cs, m, "drain_from_lb")

\* a bug: the classic balancers are scanned whatever is attached
ScanPathAlwaysClassic(tgs) == "scan_classic"

\* main.py:137, 146: the classic scan only when no target group is attached
ScanPath(tgs) == IF Len(tgs) = 0 THEN "scan_classic" ELSE "scan_target_groups"

\* main.py:130-137
FindTg(p) ==
    /\ pc[p] = "find_tg"
    /\ IF spot[p].current_asg = None
       THEN ReturnFromFindTg(p, calls[p], None, None)
       ELSE LET tgs == DescribeLoadBalancerTargetGroups(spot[p].current_asg)
                cs == Append(calls[p],
                             Call("autoscaling.describe_load_balancer_target_groups",
                                  spot[p].current_asg, "", 0, ""))
            IN  Continue(p, [spot[p] EXCEPT !.tgs = tgs, !.i = 1], cs, NoMetric,
                         ScanPath(tgs))
    /\ UNCHANGED <<faults, metrics_namespace, provider>>

\* main.py:141-145: the first balancer, in listing order, that holds the
\* instance; 0 when none does.
RECURSIVE FirstHolding(_, _, _)
FirstHolding(lbs, instance_id, k) ==
    IF k > Len(lbs) THEN 0
    ELSE IF instance_id \in lbs[k].Instances THEN k
    ELSE FirstHolding(lbs, instance_id, k + 1)

\* main.py:138-145, 159-160
ScanClassic(p) ==
    /\ pc[p] = "scan_classic"
    /\ LET allLBs == DescribeLoadBalancers
           cs == Append(calls[p], Call("elb.describe_load_balancers", "", "", 0, ""))
           k == FirstHolding(allLBs, InstanceOf[p], 1)
       IN  IF k > 0
           THEN ReturnFromFindTg(p, cs, "elb", allLBs[k].LoadBalancerName)
           ELSE ReturnFromFindTg(p, cs, None, None)
    /\ UNCHANGED <<faults, metrics_namespace, provider>>

\* a bug: a match does not end the loop, the last group decides
AfterTargetHealthNoBreak(found, i, n) ==
    IF i < n THEN "next_group"
    ELSE IF found THEN "return_match"
    ELSE "return_none"

\* main.py:148-157: what the loop does after the health of group i of n was
\* scanned.
AfterTargetHealth(found, i, n) ==
    IF found THEN "return_match"
    ELSE IF i < n THEN "next_group"
    ELSE "return_none"

\* main.py:148-160, one describe_target_health call per step.
ScanTargetGroups(p) ==
    /\ pc[p] = "scan_target_groups"
    /\ LET i == spot[p].i
           tgArn == spot[p].tgs[i]
           tgHealth == DescribeTargetHealth(tgArn)
           cs == Append(calls[p], Call("elbv2.describe_target_health", tgArn, "", 0, ""))
           todo == AfterTargetHealth(InstanceOf[p] \in tgHealth, i, Len(spot[p].tgs))
       IN  CASE todo = "return_match" -> ReturnFromFindTg(p, cs, "alb", tgArn)
             [] todo = "next_group" ->
                  Continue(p, [spot[p] EXCEPT !.i = i + 1], cs, NoMetric, "scan_target_groups")
             [] OTHER -> ReturnFromFindTg(p, cs, None, None)
    /\ UNCHANGED <<faults, metrics_namespace, provider>>

\* ----------------------------------------------------- Spot.drain_from_lb
\* a bug: the classic branch is missing
DrainCallsTargetGroupOnly(lb_type, resource_id, instance_id) ==
    IF lb_type = "alb"
    THEN <<Call("elbv2.deregister_targets", resource_id, instance_id, 0, "")>>
    ELSE <<>>

\* main.py:162-179: the deregistration calls for the located resource.
DrainCalls(lb_type, resource_id, instance_id) ==
    IF lb_type = "alb"
    THEN <<Call("elbv2.deregister_targets", resource_id, instance_id, 0, "")>>
    ELSE IF lb_type = "elb"
    THEN <<Call("elb.deregister_instances_from_load_balancer", resource_id, instance_id, 0, "")>>
    ELSE <<>>

\* provider: the registrations after a deregistration call
Deregistered(c) ==
    /\ tgTargets' = IF c.api = "elbv2.deregister_targets" /\ c.target \in DOMAIN tgTargets
                    THEN [tgTargets EXCEPT ![c.target] = @ \ {c.who}]
                    ELSE tgTargets
    /\ elbs' = IF c.api = "elb.deregister_instances_from_load_balancer"
               THEN [k \in 1..Len(elbs) |->
                       IF elbs[k].LoadBalancerName = c.target
                       THEN [elbs[k] EXCEPT !.Instances = @ \ {c.who}]
                       ELSE elbs[k]]
               ELSE elbs

\* provider: whether the instance is registered with the resource a
\* deregistration call names
Registered(c) ==
    IF c.api = "elbv2.deregister_targets"
    THEN c.target \in DOMAIN tgTargets /\ c.who \in tgTargets[c.target]
    ELSE \E k \in 1..Len(elbs) :
            elbs[k].LoadBalancerName = c.target /\ c.who \in elbs[k].Instances

\* main.py:165-177: the deregistration call sits outside any try. The
\* provider may accept a call for an instance that is no longer registered, or
\* reject it; a rejection raises out of drain_from_lb.
DeregistrationOutcomes(c) ==
    {"ok"} \cup IF "deregistration" \in faults /\ ~Registered(c)
                THEN {"AlreadyDeregistered"} ELSE {}

\* main.py:234-240: drain_from_lb, then handler returns when there is no
\* replacement group.
DrainFromLb(p) ==
    /\ pc[p] = "drain_from_lb"
    /\ LET ds == DrainCalls(spot[p].lb_type, spot[p].resource_id, InstanceOf[p])
           next == IF spot[p].target_asg_name = None THEN "completed" ELSE "resize_asg"
       IN  IF ds = <<>>
           THEN /\ Continue(p, spot[p], calls[p], NoMetric, next)
                /\ UNCHANGED <<tgTargets, elbs>>
           ELSE \E answer \in DeregistrationOutcomes(ds[1]) :
                  IF answer = "ok"
                  THEN /\ Deregistered(ds[1])
                       /\ \E m \in MetricOutcomes(spot[p], "drain", "drain") :
                              Continue(p, spot[p], calls[p] \o ds, m, next)
                  ELSE /\ Raise(p, spot[p], calls[p] \o ds, answer)
                       /\ UNCHANGED <<tgTargets, elbs>>
    /\ UNCHANGED <<faults, metrics_namespace, tags, asgTGs, groups>>

\* -------------------------------------------------------- Spot.resize_asg
\* a bug: > where the code has >=
AtCapacityStrict(DesiredCapacity, maxSize) == DesiredCapacity > maxSize

\* main.py:199
AtCapacity(DesiredCapacity, maxSize) == DesiredCapacity >= maxSize

\* a bug: the increment applied twice
IncreasedTwice(DesiredCapacity) == DesiredCapacity + 2

\* main.py:186, 207
Increased(DesiredCapacity) == DesiredCapacity + 1

\* a different resize: the group is read again before it is updated
UpdateCallsReread(name, DesiredCapacity) ==
    <<Call("autoscaling.describe_auto_scaling_groups", name, "", DesiredCapacity - 1, ""),
      Call("autoscaling.update_auto_scaling_group", name, "", DesiredCapacity, "")>>

\* main.py:211-213, as many update calls as the code issues
UpdateCalls(name, DesiredCapacity) ==
    <<Call("autoscaling.update_auto_scaling_group", name, "", DesiredCapacity, "")>>

\* a different provider: the update adds one to what the group holds now
UpdatedAtomically(gs, us) ==
    IF us # <<>> /\ us[1].target \in DOMAIN gs
    THEN [gs EXCEPT ![us[1].target].DesiredCapacity = @ + 1]
    ELSE gs

\* provider: the groups after the update calls
RECURSIVE Updated(_, _)
Updated(gs, us) ==
    IF us = <<>> THEN gs
    ELSE Updated(IF us[1].target \in DOMAIN gs
                 THEN [gs EXCEPT ![us[1].target].DesiredCapacity = us[1].n]
                 ELSE gs,
                 Tail(us))

\* main.py:186-216
ResizeAsg(p) ==
    /\ pc[p] = "resize_asg"
    /\ LET sp == spot[p]
           maxSize == MaxSizeOf(sp.target_asg_opts, sp.target_asg.MaxSize)
       IN  IF maxSize.err
           THEN /\ Raise(p, sp, calls[p], "ValueError")
                /\ UNCHANGED groups
           ELSE LET sized == [sp EXCEPT !.maxSize = [set |-> TRUE, val |-> maxSize.val]]
                IN  IF AtCapacity(sp.target_asg.DesiredCapacity, maxSize.val)
                    THEN /\ \E m \in MetricOutcomes(sp, "fail", "Already at max size") :
                                Continue(p, [sized EXCEPT !.resized = "False"], calls[p],
                                         m, "completed")
                         /\ UNCHANGED groups
                    ELSE LET d == Increased(sp.target_asg.DesiredCapacity)
                             us == UpdateCalls(sp.target_asg.AutoScalingGroupName, d)
                         IN  /\ groups' = Updated(groups, us)
                             /\ \E m \in MetricOutcomes(sp, "scale", "scale") :
                                    Continue(p, [sized EXCEPT !.target_asg.DesiredCapacity = d,
                                                              !.resized = "True"],
                                             calls[p] \o us, m, "completed")
    /\ UNCHANGED <<faults, metrics_namespace, tags, asgTGs, tgTargets, elbs>>

\* ------------------------------------------------------------ environments
GroupRecords ==
    {[AutoScalingGroupName |-> ReplacementGroup, DesiredCapacity |-> d, MaxSize |-> m] :
        d \in 0..MaxCap, m \in 0..MaxCap}

\* The replacement group is missing, or holds DesiredCapacity <= MaxSize.
GroupStates ==
    {<<>>} \cup {ReplacementGroup :> g : g \in {h \in GroupRecords : h.DesiredCapacity <= h.MaxSize}}

Routings ==
    [grp : {None, CurrentGroup}, attached : Arrangements(TGs, MaxTGs),
     inTGs : SUBSET TGs, inLBs : SUBSET LBs]
Capacities == [od : {NoneText} \cup Directives, groups : GroupStates]

\* A few routings and capacities that cover every branch of the other stage.
SomeRoutings ==
    {r \in Routings : /\ r.attached \in {<<>>, <<TGNames[1]>>}
                      /\ r.inTGs \in {{}, TGs}
                      /\ r.inLBs = LBs}
SomeCapacities ==
    {c \in Capacities :
        /\ c.od \in {NoneText, <<ReplacementGroup>>}
        /\ c.groups # <<>> => /\ c.groups[ReplacementGroup].MaxSize = 1
                              /\ c.od # NoneText}

\* The provider as invocation 1 finds it: its instance with the tags and
\* registrations of r and c; the other instance is registered everywhere.
Setup(r, c, name, ns) ==
    /\ metrics_namespace = ns
    /\ tags = [ins \in Instances |->
                 IF ins = InstanceOf[1]
                 THEN [grp |-> r.grp, name |-> name, od |-> c.od] ELSE NoTags]
    /\ asgTGs = (CurrentGroup :> r.attached)
    /\ tgTargets = [t \in TGs |->
                      {InstanceOf[2]} \cup (IF t \in r.inTGs THEN {InstanceOf[1]} ELSE {})]
    /\ elbs = [k \in 1..MaxLBs |->
                 [LoadBalancerName |-> LBNames[k],
                  Instances |-> {InstanceOf[2]} \cup
                                (IF LBNames[k] \in r.inLBs THEN {InstanceOf[1]} ELSE {})]]
    /\ groups = c.groups

\* The invocations ps were started; the others never run.
Started(ps) ==
    /\ pc = [p \in Procs |-> IF p \in ps THEN "assume_role" ELSE "idle"]
    /\ spot = [p \in Procs |-> NewSpot]
    /\ calls = [p \in Procs |-> <<>>]

\* One invocation, for every routing with some capacities and every capacity
\* with some routings.
Init ==
    /\ faults = {}
    /\ Started({1})
    /\ \E name \in {None, "web"}, ns \in {None, "ns"} :
        \/ \E r \in Routings, c \in SomeCapacities : Setup(r, c, name, ns)
        \/ \E r \in SomeRoutings, c \in Capacities : Setup(r, c, name, ns)

Next ==
    \E p \in Procs :
        \/ AssumeRole(p)
        \/ GetCurrentAsg(p)
        \/ GetDesiredAsg(p)
        \/ FindTg(p)
        \/ ScanClassic(p)
        \/ ScanTargetGroups(p)
        \/ DrainFromLb(p)
        \/ ResizeAsg(p)

Spec == Init /\ [][Next]_vars

\* ---------------------------------------------- failing collaborators
\* The provider between find_tg and drain_from_lb of invocation p: another
\* drain of the same resource and instance (a repeated notice, the group's
\* own termination) has taken the instance out of the located resource.
AlreadyDrained(p) ==
    /\ "deregistration" \in faults
    /\ pc[p] = "drain_from_lb"
    /\ LET ds == DrainCalls(spot[p].lb_type, spot[p].resource_id, InstanceOf[p])
       IN  /\ ds # <<>>
           /\ Registered(ds[1])
           /\ Deregistered(ds[1])
    /\ UNCHANGED <<faults, metrics_namespace, tags, asgTGs, groups, pc, spot, calls>>

\* One invocation against a metric sink that can fail and a provider that can
\* reject the deregistration of an instance that is not registered.
InitFaults ==
    /\ faults = {"metrics", "deregistration"}
    /\ Started({1})
    /\ \E name \in {None, "web"}, ns \in {None, "ns"} :
        \/ \E r \in Routings, c \in SomeCapacities : Setup(r, c, name, ns)
        \/ \E r \in SomeRoutings, c \in Capacities : Setup(r, c, name, ns)

NextFaults ==
    \E p \in Procs :
        \/ AssumeRole(p)
        \/ GetCurrentAsg(p)
        \/ GetDesiredAsg(p)
        \/ FindTg(p)
        \/ ScanClassic(p)
        \/ ScanTargetGroups(p)
        \/ AlreadyDrained(p)
        \/ DrainFromLb(p)
        \/ ResizeAsg(p)

SpecFaults == InitFaults /\ [][NextFaults]_vars

\* Well-formed directives for the replacement group: no option, a ceiling
\* within the bounds, a ceiling beyond them.
SharedDirectives ==
    {<<ReplacementGroup>> \o o :
        o \in {<<>>, Opt("MaxDesired", <<"1">>), Opt("MaxDesired", <<"4">>)}}

\* handler runs in one thread from its first statement to its return or to
\* the error that ends it.
InitLive ==
    /\ faults = {}
    /\ Started({1})
    /\ \E ns \in {None, "ns"}, r \in SomeRoutings, c \in Capacities :
        /\ c.od \in {NoneText} \cup SharedDirectives
        /\ Setup(r, c, None, ns)

\* The positions of handler, and the step that leaves p's position.
Positions ==
    {"idle", "assume_role", "get_current_asg", "get_desired_asg", "find_tg",
     "scan_classic", "scan_target_groups", "drain_from_lb", "resize_asg",
     "completed", "aborted_no_identity", "error"}
Running(p) == pc[p] \notin {"idle", "completed", "aborted_no_identity", "error"}
Advance(p) ==
    /\ Running(p)
    /\ \E at \in Positions \ {pc[p]} : pc' = [pc EXCEPT ![p] = at]

\* Every step of Next of a running invocation leaves its position: an
\* invocation that is running takes its next step.
SpecLive == InitLive /\ [][Next]_vars /\ \A p \in Procs : WF_pc(Advance(p))

\* ------------------------------------------------ concurrent invocations
\* Two notices arrive together, for two instances of the same current group
\* that name the same replacement group: handler runs once for each, and the
\* provider serves their calls in any order.
InitRace ==
    /\ faults = {}
    /\ Started(Procs)
    /\ \E ns \in {None, "ns"}, od \in SharedDirectives,
          attached \in {<<>>, <<TGNames[1]>>}, g \in GroupStates :
        /\ metrics_namespace = ns
        /\ tags = [ins \in Instances |-> [grp |-> CurrentGroup, name |-> None, od |-> od]]
        /\ asgTGs = (CurrentGroup :> attached)
        /\ tgTargets = [t \in TGs |-> Instances]
        /\ elbs = [k \in 1..MaxLBs |->
                     [LoadBalancerName |-> LBNames[k], Instances |-> Instances]]
        /\ groups = g

SpecRace == InitRace /\ [][Next]_vars

\* ================================================================= claims
Terminal(p) == pc[p] \in {"completed", "aborted_no_identity", "error"}

CallsOf(p, apis) == SelectSeq(calls[p], LAMBDA c : c.api \in apis)
DeregistrationsOf(p) ==
    CallsOf(p, {"elbv2.deregister_targets", "elb.deregister_instances_from_load_balancer"})
UpdatesOf(p) == CallsOf(p, {"autoscaling.update_auto_scaling_group"})
SnapshotReadsOf(p) == CallsOf(p, {"autoscaling.describe_auto_scaling_groups"})
HealthQueriesOf(p) == CallsOf(p, {"elbv2.describe_target_health"})
ClassicListingsOf(p) == CallsOf(p, {"elb.describe_load_balancers"})

Least(S) == CHOOSE k \in S : \A j \in S : k <= j

\* What the provider holds for the instance of p.
DirectiveOf(p) == tags[InstanceOf[p]].od
DirectiveName(p) == Text(Split(DirectiveOf(p), ";")[1])
DirectiveOptions(p) == Tail(Split(DirectiveOf(p), ";"))
AttachedOf(p) == asgTGs[CurrentGroup]
HoldingTGs(p) == {k \in 1..Len(AttachedOf(p)) : InstanceOf[p] \in tgTargets[AttachedOf(p)[k]]}
HoldingLBs(p) == {k \in 1..Len(elbs) : InstanceOf[p] \in elbs[k].Instances}

\* The instance is registered in a routing resource of its current group.
Routed(p) ==
    /\ tags[InstanceOf[p]].grp # None
    /\ IF AttachedOf(p) = <<>> THEN HoldingLBs(p) # {} ELSE HoldingTGs(p) # {}

\* The value the directive states for MaxDesired, as <name>[;key=value]*
\* reads: the last option whose key is MaxDesired; NoneText without one.
RECURSIVE StatedValue(_, _)
StatedValue(options, key) ==
    IF options = <<>> THEN NoneText
    ELSE LET kv == SplitOnce(options[Len(options)], "=")
         IN  IF Len(kv) = 2 /\ Text(Strip(kv[1])) = key THEN kv[2]
             ELSE StatedValue(SubSeq(options, 1, Len(options) - 1), key)
StatedMaxDesired(p) == StatedValue(DirectiveOptions(p), "MaxDesired")

\* C1: in a run that obtained a session, whose instance is registered in a
\* routing resource of its current group and whose directive names a group
\* that does not exist, the deregistration call is issued and the run ends
\* completed.
C1_DrainDespiteMissingGroup ==
    \A p \in Procs :
        ( /\ Terminal(p)
          /\ spot[p].session
          /\ Routed(p)
          /\ DirectiveOf(p) # NoneText
          /\ DirectiveName(p) \notin DOMAIN groups )
        => ( /\ DeregistrationsOf(p) # <<>>
             /\ pc[p] = "completed" )

\* C2: in a run that obtained a session, when the directive names an existing
\* group whose desired capacity is below the ceiling, exactly one update call
\* is issued, whatever the routing resource turned out to be.
C2_IncrementDespiteNoDrain ==
    \A p \in Procs :
        ( /\ Terminal(p)
          /\ spot[p].session
          /\ DirectiveOf(p) # NoneText
          /\ DirectiveName(p) \in DOMAIN groups
          /\ LET g == groups[DirectiveName(p)]
                 ceiling == MaxSizeOf(DirectiveOptions(p), g.MaxSize)
             IN  ~ceiling.err /\ g.DesiredCapacity < ceiling.val )
        => Len(UpdatesOf(p)) = 1

\* C3: when resize_asg finds the snapshot's desired capacity at or above the
\* ceiling it computed, it issues no update call, leaves the group and the
\* snapshot as they were, and returns False.
C3_AtCeilingNoUpdate ==
    [][ \A p \in Procs :
          ( /\ pc[p] = "resize_asg"
            /\ pc'[p] # "resize_asg"
            /\ spot'[p].maxSize.set
            /\ spot[p].target_asg.DesiredCapacity >= spot'[p].maxSize.val )
          => ( /\ UpdatesOf(p)' = <<>>
               /\ groups' = groups
               /\ spot'[p].target_asg = spot[p].target_asg
               /\ spot'[p].resized = "False"
               /\ pc'[p] = "completed" ) ]_vars

\* a run that stopped with the snapshot exactly at the ceiling
C3_Witness ==
    \E p \in Procs :
        /\ pc[p] = "completed"
        /\ spot[p].resized = "False"
        /\ spot[p].maxSize.set
        /\ spot[p].target_asg.DesiredCapacity = spot[p].maxSize.val
        /\ spot[p].maxSize.val > 0

\* C4: a run issues at most one update call; the call there is names the
\* replacement group of the directive and sets the desired capacity to the
\* snapshot's value d plus one, with d below the ceiling; a run that
\* completed with d below the ceiling issued it.
C4_OneIncrementByOne ==
    \A p \in Procs :
        LET us == UpdatesOf(p)
            ds == SnapshotReadsOf(p)
        IN  /\ Len(us) <= 1
            /\ us # <<>> =>
                 /\ Len(ds) = 1
                 /\ us[1].target = DirectiveName(p)
                 /\ us[1].n = ds[1].n + 1
                 /\ spot[p].maxSize.set
                 /\ ds[1].n < spot[p].maxSize.val
            /\ ( /\ pc[p] = "completed"
                 /\ spot[p].maxSize.set
                 /\ ds[1].n < spot[p].maxSize.val ) => Len(us) = 1

\* a run that completed with its one update call, above zero
C4_Witness ==
    \E p \in Procs :
        /\ pc[p] = "completed"
        /\ Len(UpdatesOf(p)) = 1
        /\ UpdatesOf(p)[1].n = 2

\* C5: the ceiling resize_asg uses is the MaxDesired value of the directive
\* when the directive states one that is an integer, and the snapshot's
\* MaxSize when the directive states none.
C5_CeilingFromDirective ==
    \A p \in Procs :
        spot[p].maxSize.set =>
            LET v == StatedMaxDesired(p)
            IN  /\ v = NoneText => spot[p].maxSize.val = spot[p].target_asg.MaxSize
                /\ (v # NoneText /\ ~PyInt(v).err) => spot[p].maxSize.val = PyInt(v).val

\* C6: with a MaxDesired value that is no integer the capacity stage does
\* not raise: it uses the snapshot's MaxSize as the ceiling and decides as
\* usual.
C6_NonIntegerFallsBack ==
    \A p \in Procs :
        ( /\ Terminal(p)
          /\ spot[p].target_asg_name # None
          /\ \/ pc[p] = "completed"
             \/ spot[p].exc = "ValueError"
          /\ StatedMaxDesired(p) # NoneText
          /\ PyInt(StatedMaxDesired(p)).err )
        => ( /\ pc[p] = "completed"
             /\ spot[p].maxSize = [set |-> TRUE, val |-> spot[p].target_asg.MaxSize]
             /\ spot[p].resized \in {"True", "False"} )

\* C7: when the instance first appears in the attached target group at
\* position k, find_tg returns that group as a target group, having queried
\* the health of the groups at positions 1..k and of no other.
C7_FirstMatchWins ==
    \A p \in Procs :
        ( /\ pc[p] \in {"scan_target_groups", "drain_from_lb"}
          /\ spot[p].current_asg # None
          /\ HoldingTGs(p) # {} )
        => LET att == AttachedOf(p)
               k == Least(HoldingTGs(p))
               hs == HealthQueriesOf(p)
           IN  /\ Len(hs) <= k
               /\ \A j \in 1..Len(hs) : hs[j].target = att[j]
               /\ pc[p] = "drain_from_lb" =>
                    /\ Len(hs) = k
                    /\ spot[p].lb_type = "alb"
                    /\ spot[p].resource_id = att[k]

\* find_tg returned the first of two attached groups, both holding the instance
C7_Witness ==
    \E p \in Procs :
        /\ pc[p] = "drain_from_lb"
        /\ Len(AttachedOf(p)) = 2
        /\ HoldingTGs(p) = {1, 2}
        /\ spot[p].resource_id = AttachedOf(p)[1]
        /\ Len(HealthQueriesOf(p)) = 1

\* C8: find_tg lists the classic balancers exactly when the current group is
\* present and has no attached target group; with attached groups that do not
\* hold the instance it returns none; with none attached it returns the first
\* balancer holding the instance, or none.
C8_ClassicOnlyWithoutTargetGroups ==
    \A p \in Procs :
        LET scanned == Len(ClassicListingsOf(p))
            fallback == spot[p].current_asg # None /\ AttachedOf(p) = <<>>
        IN  /\ scanned <= 1
            /\ scanned = 1 => fallback
            /\ pc[p] = "drain_from_lb" =>
                 /\ fallback => scanned = 1
                 /\ ( /\ spot[p].current_asg # None
                      /\ AttachedOf(p) # <<>>
                      /\ HoldingTGs(p) = {} )
                    => spot[p].lb_type = None /\ spot[p].resource_id = None
                 /\ (fallback /\ HoldingLBs(p) = {})
                    => spot[p].lb_type = None /\ spot[p].resource_id = None
                 /\ (fallback /\ HoldingLBs(p) # {})
                    => /\ spot[p].lb_type = "elb"
                       /\ spot[p].resource_id = elbs[Least(HoldingLBs(p))].LoadBalancerName

\* find_tg returned none although a classic balancer holds the instance: its
\* group has attached target groups, none holding it
C8_Witness ==
    \E p \in Procs :
        /\ pc[p] = "drain_from_lb"
        /\ spot[p].current_asg # None
        /\ AttachedOf(p) # <<>>
        /\ HoldingTGs(p) = {}
        /\ HoldingLBs(p) # {}
        /\ spot[p].lb_type = None
        /\ Len(HealthQueriesOf(p)) = Len(AttachedOf(p))

\* drain_from_lb has run in the invocation p
Drained(p) ==
    \/ pc[p] \in {"resize_asg", "completed"}
    \/ pc[p] = "error" /\ spot[p].exc = "ValueError"

\* C9: the deregistration calls of a run are those of the located resource:
\* none before drain_from_lb; after it none for `none` (and the run goes on
\* to the capacity stage), one target deregistration of the located target
\* group and this instance for a target group, one classic deregistration of
\* the located balancer and this instance for a classic balancer.
C9_DrainMatchesResource ==
    \A p \in Procs :
        LET ds == DeregistrationsOf(p)
        IN  /\ ~Drained(p) => ds = <<>>
            /\ (Drained(p) /\ spot[p].lb_type = None) =>
                 /\ ds = <<>>
                 /\ (pc[p] = "completed" /\ spot[p].target_asg_name # None)
                    => spot[p].resized # None
            /\ (Drained(p) /\ spot[p].lb_type = "alb") =>
                 /\ Len(ds) = 1
                 /\ ds[1].api = "elbv2.deregister_targets"
                 /\ ds[1].target = spot[p].resource_id
                 /\ ds[1].who = InstanceOf[p]
            /\ (Drained(p) /\ spot[p].lb_type = "elb") =>
                 /\ Len(ds) = 1
                 /\ ds[1].api = "elb.deregister_instances_from_load_balancer"
                 /\ ds[1].target = spot[p].resource_id
                 /\ ds[1].who = InstanceOf[p]

\* a run that drained its instance from a classic balancer
C9_Witness ==
    \E p \in Procs :
        /\ pc[p] = "completed"
        /\ spot[p].lb_type = "elb"
        /\ Len(DeregistrationsOf(p)) = 1
        /\ InstanceOf[p] \notin elbs[1].Instances

\* C10: a run whose assume-role call failed ends aborted-no-identity with
\* that call as its only provider call.
C10_NoIdentityNoCalls ==
    \A p \in Procs :
        (calls[p] # <<>> /\ ~spot[p].session) =>
            /\ pc[p] = "aborted_no_identity"
            /\ Len(calls[p]) = 1
            /\ calls[p][1].api = "sts.assume_role"

\* a run aborted for lack of identity, in a provider with everything in place
C10_Witness ==
    \E p \in Procs :
        /\ pc[p] = "aborted_no_identity"
        /\ Routed(p)
        /\ DirectiveOf(p) # NoneText
        /\ metrics_namespace # None

\* C11: a failed or timed-out metric emission never changes the outcome of a
\* run: a run that located a routing resource issues its deregistration call
\* whatever became of the emissions before it, and does not end in the
\* failure of an emission.
C11_MetricFailureChangesNothing ==
    \A p \in Procs :
        (Terminal(p) /\ spot[p].lb_type # None) =>
            /\ DeregistrationsOf(p) # <<>>
            /\ spot[p].exc # "MetricsDeliveryFailure"

\* C12: a deregistration call rejected because the instance is already
\* deregistered is a no-op: it does not end the run, which goes on to the
\* capacity stage.
C12_AlreadyDeregisteredIsNoOp ==
    \A p \in Procs :
        (DeregistrationsOf(p) # <<>> /\ ~Registered(DeregistrationsOf(p)[1])) =>
            /\ spot[p].exc # "AlreadyDeregistered"
            /\ pc[p] # "error" \/ spot[p].exc \in {"MetricsDeliveryFailure", "ValueError"}

\* C13: a run that obtained a session and whose instance carries no
\* replacement-directive tag ends completed, reads no scaling-group
\* snapshot and issues no update call, and drains what it located: one
\* deregistration call, for the located resource, when there is one.
C13_NoDirectiveSkipsOnlyCapacity ==
    \A p \in Procs :
        (Terminal(p) /\ spot[p].session /\ DirectiveOf(p) = NoneText) =>
            /\ pc[p] = "completed"
            /\ SnapshotReadsOf(p) = <<>>
            /\ UpdatesOf(p) = <<>>
            /\ spot[p].lb_type = None => DeregistrationsOf(p) = <<>>
            /\ spot[p].lb_type # None =>
                 /\ Len(DeregistrationsOf(p)) = 1
                 /\ DeregistrationsOf(p)[1].target = spot[p].resource_id

\* C14: the capacity read-modify-write is unprotected: every update call
\* writes the snapshot its own invocation read earlier plus one, whatever
\* the group holds by then, so that an increment of a concurrent invocation
\* written in between is overwritten.
C14_UpdateWritesOwnSnapshot ==
    [][\A p \in Procs :
        Len(UpdatesOf(p)') > Len(UpdatesOf(p)) =>
            /\ SnapshotReadsOf(p) # <<>>
            /\ spot[p].target_asg.DesiredCapacity = SnapshotReadsOf(p)[1].n
            /\ groups'[ReplacementGroup].DesiredCapacity =
                   spot[p].target_asg.DesiredCapacity + 1]_vars

\* two invocations both read d, with d + 2 within the ceiling, both wrote
\* d + 1 and completed, and the group holds d + 1: one increment is lost
C14_Witness ==
    \E d \in 0..MaxCap :
        /\ \A p \in Procs :
            /\ pc[p] = "completed"
            /\ Len(SnapshotReadsOf(p)) = 1 /\ SnapshotReadsOf(p)[1].n = d
            /\ Len(UpdatesOf(p)) = 1 /\ UpdatesOf(p)[1].n = d + 1
            /\ d + 2 <= spot[p].maxSize.val
        /\ InstanceOf[1] # InstanceOf[2]
        /\ groups[ReplacementGroup].DesiredCapacity = d + 1

\* C16: whatever the interleaving of the invocations that share the
\* replacement group and its ceiling, no update call carries a desired
\* capacity above the ceiling, and once an update was issued the group
\* holds at most the ceiling.
C16_NeverAboveCeiling ==
    \A p \in Procs :
        spot[p].maxSize.set =>
            /\ \A q \in Procs : \A k \in 1..Len(UpdatesOf(q)) :
                   UpdatesOf(q)[k].n <= spot[p].maxSize.val
            /\ (\E q \in Procs : UpdatesOf(q) # <<>>) =>
                   groups[ReplacementGroup].DesiredCapacity <= spot[p].maxSize.val

\* one invocation raised the group to the ceiling and the other, reading
\* after it, found the group at the ceiling and left it there
C16_Witness ==
    \E p, q \in Procs :
        /\ p # q
        /\ pc[p] = "completed" /\ spot[p].resized = "True"
        /\ pc[q] = "completed" /\ spot[q].resized = "False"
        /\ SnapshotReadsOf(q)[1].n = UpdatesOf(p)[1].n
        /\ groups[ReplacementGroup].DesiredCapacity = spot[q].maxSize.val

\* The invocation p holds its session and has read nothing yet; its instance
\* is in its current group and registered in an attached target group, and
\* its directive names an existing group whose desired capacity is below the
\* ceiling.
EndToEnd(p) ==
    /\ pc[p] = "get_current_asg"
    /\ tags[InstanceOf[p]].grp = CurrentGroup
    /\ HoldingTGs(p) # {}
    /\ DirectiveOf(p) # NoneText
    /\ DirectiveName(p) \in DOMAIN groups
    /\ LET g == groups[DirectiveName(p)]
           c == MaxSizeOf(DirectiveOptions(p), g.MaxSize)
       IN  ~c.err /\ g.DesiredCapacity < c.val

\* The invocation p completed with one target deregistration, of its
\* instance from the located target group, and one update call that sets the
\* directive's group to the value read plus one.
CompletedEndToEnd(p) ==
    /\ pc[p] = "completed"
    /\ Len(DeregistrationsOf(p)) = 1
    /\ DeregistrationsOf(p)[1].api = "elbv2.deregister_targets"
    /\ DeregistrationsOf(p)[1].target = spot[p].resource_id
    /\ DeregistrationsOf(p)[1].who = InstanceOf[p]
    /\ spot[p].resource_id \in {AttachedOf(p)[k] : k \in 1..Len(AttachedOf(p))}
    /\ InstanceOf[p] \notin tgTargets[spot[p].resource_id]
    /\ Len(SnapshotReadsOf(p)) = 1
    /\ Len(UpdatesOf(p)) = 1
    /\ UpdatesOf(p)[1].target = DirectiveName(p)
    /\ UpdatesOf(p)[1].n = SnapshotReadsOf(p)[1].n + 1
    /\ groups[DirectiveName(p)].DesiredCapacity = SnapshotReadsOf(p)[1].n + 1

\* C15: end to end, a run for an instance registered in a target group of
\* its current group, whose directive names an existing group below the
\* ceiling, eventually completes having issued exactly one target
\* deregistration for that target group and instance and exactly one update
\* that sets the group's desired capacity to its previous value plus one.
C15_EndToEnd ==
    \A p \in Procs : EndToEnd(p) ~> CompletedEndToEnd(p)

\* the end-to-end run: desired capacity 2 under the stated ceiling 4 became 3
C15_Witness ==
    \E p \in Procs :
        /\ CompletedEndToEnd(p)
        /\ StatedMaxDesired(p) = <<"4">>
        /\ UpdatesOf(p)[1].n = 3
        /\ metrics_namespace # None

ReadApis ==
    {"ec2.describe_tags", "autoscaling.describe_auto_scaling_groups",
     "autoscaling.describe_load_balancer_target_groups",
     "elb.describe_load_balancers", "elbv2.describe_target_health"}
DeregistrationApis ==
    {"elbv2.deregister_targets", "elb.deregister_instances_from_load_balancer"}
UpdateApis == {"autoscaling.update_auto_scaling_group"}
TagReadsOf(p) == CallsOf(p, {"ec2.describe_tags"})

\* C17: within one run every read precedes every write and the drain write
\* precedes the resize write: no read call follows a deregistration or an
\* update call, no deregistration call follows an update call,
\* construction is over when the deregistration call is issued, and the
\* value the update call writes comes from the one snapshot read before.
C17_ReadsThenDrainThenResize ==
    \A p \in Procs :
        /\ \A i, j \in 1..Len(calls[p]) :
              i < j =>
                /\ ~( /\ calls[p][i].api \in DeregistrationApis \cup UpdateApis
                      /\ calls[p][j].api \in ReadApis )
                /\ ~( /\ calls[p][i].api \in UpdateApis
                      /\ calls[p][j].api \in DeregistrationApis )
        /\ DeregistrationsOf(p) # <<>> => Drained(p)
        /\ UpdatesOf(p) # <<>> =>
              /\ Len(SnapshotReadsOf(p)) = 1
              /\ UpdatesOf(p)[1].n = SnapshotReadsOf(p)[1].n + 1

\* a run that read its tags, the snapshot and the target health, then
\* drained, then updated
C17_Witness ==
    \E p \in Procs :
        /\ pc[p] = "completed"
        /\ Len(TagReadsOf(p)) = 1
        /\ Len(HealthQueriesOf(p)) = 2
        /\ Len(DeregistrationsOf(p)) = 1
        /\ Len(UpdatesOf(p)) = 1
        /\ calls[p][Len(calls[p])].api \in UpdateApis

\* C18: a run reads the instance tags in one call filtered by the instance
\* identifier alone, once it holds its session, and takes the current
\* group, the display name and the directive from that result; it reads the
\* replacement group snapshot at most once, before its update call.
C18_OneTagReadOneSnapshot ==
    \A p \in Procs :
        LET past == spot[p].session /\ pc[p] # "get_current_asg"
            decided == past /\ pc[p] # "get_desired_asg"
                            /\ spot[p].exc \notin {"ParamValidationError", "IndexError"}
            t == tags[InstanceOf[p]]
        IN  /\ Len(TagReadsOf(p)) = IF past THEN 1 ELSE 0
            /\ past =>
                  /\ TagReadsOf(p)[1].target = InstanceOf[p]
                  /\ TagReadsOf(p)[1].who = ""
                  /\ spot[p].tags = t
                  /\ spot[p].current_asg = t.grp
                  /\ spot[p].instance_name = t.name
            /\ decided =>
                  /\ spot[p].target_asg_name =
                        IF t.od = NoneText THEN None ELSE DirectiveName(p)
                  /\ t.od # NoneText => spot[p].target_asg_opts = DirectiveOptions(p)
            /\ Len(SnapshotReadsOf(p)) <= 1
            /\ \A i, j \in 1..Len(calls[p]) :
                  ( /\ calls[p][i].api \in UpdateApis
                    /\ calls[p][j].api = "autoscaling.describe_auto_scaling_groups" )
                  => j < i /\ \A k \in (j + 1)..(i - 1) : calls[p][k].api \notin UpdateApis

\* a completed run with a display name, a current group and a directive with
\* an option, one tag read and one snapshot read
C18_Witness ==
    \E p \in Procs :
        /\ pc[p] = "completed"
        /\ spot[p].instance_name = "web"
        /\ spot[p].current_asg = CurrentGroup
        /\ spot[p].target_asg_name = ReplacementGroup
        /\ spot[p].target_asg_opts # <<>>
        /\ Len(TagReadsOf(p)) = 1
        /\ Len(SnapshotReadsOf(p)) = 1
        /\ Len(UpdatesOf(p)) = 1

====
